---- MODULE Spec2Model ----
(***************************************************************************)
(* Model of src/main.py: an interactive driver that downloads two images   *)
(* by URL, sends them to a hosted multimodal model and deletes the files.  *)
(* Strings are sequences of one-character strings, so that strip(),        *)
(* lower(), os.path.splitext() and urlparse() are computed, not assumed.   *)
(***************************************************************************)
EXTENDS Integers, Sequences, FiniteSets, TLC

VARIABLES
    pc,             \* the driver's state (position in main)
    files,          \* the working directory: filename -> kind of content
    line,           \* the raw line the last input() returned
    url,            \* url1 / url2: the stripped line passed to the download
    fname,          \* the filename of the last download_and_validate_image call
    result,         \* how that call ended in the last step ("none": not called)
    out,            \* the lines the last step printed
    image_paths,    \* <<image1_path, image2_path>> as far as assigned
    deleted,        \* the paths os.remove has deleted
    analyzeCalled,  \* analyze_image_similarities has been entered
    modelCalls,     \* number of model.generate_content calls
    everRequested,  \* requests.get has been called in this run
    error,          \* the exception the top-level handler caught
    status          \* "running", or the exit status of the process

vars == <<pc, files, line, url, fname, result, out, image_paths, deleted,
          analyzeCalled, modelCalls, everRequested, error, status>>

----------------------------------------------------------------------------
(* Bounds *)

\* largest number of segments a candidate filename is built from
MaxNameSegs == 3

----------------------------------------------------------------------------
(* Characters and strings *)

Uppers == <<"A","B","C","D","E","F","G","H","I","J","K","L","M",
            "N","O","P","Q","R","S","T","U","V","W","X","Y","Z">>

Lowers == <<"a","b","c","d","e","f","g","h","i","j","k","l","m",
            "n","o","p","q","r","s","t","u","v","w","x","y","z">>

Digits == {"0","1","2","3","4","5","6","7","8","9"}

Range(s) == {s[i] : i \in DOMAIN s}

\* str.isalpha() on one ASCII character
IsAlpha(c) == c \in Range(Uppers) \cup Range(Lowers)

\* str.lower() on one character
LowerChar(c) ==
    IF c \in Range(Uppers)
    THEN Lowers[CHOOSE i \in DOMAIN Uppers : Uppers[i] = c]
    ELSE c

\* str.lower()
LowerStr(s) == [i \in 1..Len(s) |-> LowerChar(s[i])]

\* the characters str.strip() removes
Whitespace == {" ", "\t"}

RECURSIVE LStrip(_)
LStrip(s) ==
    IF s # <<>> /\ Head(s) \in Whitespace THEN LStrip(Tail(s)) ELSE s

RECURSIVE RStrip(_)
RStrip(s) ==
    IF s # <<>> /\ s[Len(s)] \in Whitespace
    THEN RStrip(SubSeq(s, 1, Len(s) - 1))
    ELSE s

\* str.strip()
Strip(s) == RStrip(LStrip(s))

\* str.find(c), 1-based; 0 when c does not occur (Python: -1)
Find(s, c) ==
    IF \E i \in DOMAIN s : s[i] = c
    THEN CHOOSE i \in DOMAIN s : s[i] = c /\ \A j \in 1..(i-1) : s[j] # c
    ELSE 0

\* str.rfind(c), 1-based; 0 when c does not occur (Python: -1)
RFind(s, c) ==
    IF \E i \in DOMAIN s : s[i] = c
    THEN CHOOSE i \in DOMAIN s : s[i] = c /\ \A j \in (i+1)..Len(s) : s[j] # c
    ELSE 0

----------------------------------------------------------------------------
(* is_valid_url: urlparse(url_string), then all([scheme, netloc]) *)

\* urllib.parse.scheme_chars
scheme_chars == Range(Uppers) \cup Range(Lowers) \cup Digits \cup {"+", "-", "."}

\* first index >= 3 of rest holding one of "/?#", else Len(rest)+1
NetlocEnd(rest) ==
    IF \E j \in 3..Len(rest) : rest[j] \in {"/", "?", "#"}
    THEN CHOOSE j \in 3..Len(rest) :
            /\ rest[j] \in {"/", "?", "#"}
            /\ \A k \in 3..(j-1) : rest[k] \notin {"/", "?", "#"}
    ELSE Len(rest) + 1

\* urlparse: the scheme, the netloc, and whether it raises ValueError
urlparse(u) ==
    LET i         == Find(u, ":")
        hasScheme == /\ i >= 2
                     /\ IsAlpha(u[1])
                     /\ \A j \in 1..(i-1) : u[j] \in scheme_chars
        scheme    == IF hasScheme THEN LowerStr(SubSeq(u, 1, i-1)) ELSE <<>>
        rest      == IF hasScheme THEN SubSeq(u, i+1, Len(u)) ELSE u
        hasNetloc == Len(rest) >= 2 /\ rest[1] = "/" /\ rest[2] = "/"
        netloc    == IF hasNetloc THEN SubSeq(rest, 3, NetlocEnd(rest) - 1) ELSE <<>>
        raises    == \/ "[" \in Range(netloc) /\ "]" \notin Range(netloc)
                     \/ "]" \in Range(netloc) /\ "[" \notin Range(netloc)
    IN  [scheme |-> scheme, netloc |-> netloc, raises |-> raises]

is_valid_url(url_string) ==
    LET r == urlparse(url_string)
    IN  Len(r.scheme) > 0 /\ Len(r.netloc) > 0

----------------------------------------------------------------------------
(* validate_file: os.path.splitext(filename)[1].lower() in allowed *)

allowed_extensions ==
    { <<".","j","p","g">>, <<".","j","p","e","g">>,
      <<".","p","n","g">>, <<".","g","i","f">> }

\* the loop of os.path.splitext that skips the leading dots of the last
\* path component: TRUE when a non-dot character precedes the last dot
RECURSIVE SkipLeadingDots(_, _, _)
SkipLeadingDots(p, filenameIndex, dotIndex) ==
    IF filenameIndex < dotIndex
    THEN IF p[filenameIndex] # "."
         THEN TRUE
         ELSE SkipLeadingDots(p, filenameIndex + 1, dotIndex)
    ELSE FALSE

\* os.path.splitext(p)[1]
splitext(p) ==
    LET sepIndex == RFind(p, "/")
        dotIndex == RFind(p, ".")
    IN  IF dotIndex > sepIndex /\ SkipLeadingDots(p, sepIndex + 1, dotIndex)
        THEN SubSeq(p, dotIndex, Len(p))
        ELSE <<>>

validate_fileNoLower(filename) == splitext(filename) \in allowed_extensions

validate_file(filename) ==
    LET file_extension == LowerStr(splitext(filename))
    IN  file_extension \in allowed_extensions

----------------------------------------------------------------------------
(* The filesystem: a function from the names that exist to their content *)

NoFiles == [n \in {} |-> "image"]

WriteFile(fs, name, content) ==
    [n \in DOMAIN fs \cup {name} |-> IF n = name THEN content ELSE fs[n]]

RemoveFile(fs, name) == [n \in DOMAIN fs \ {name} |-> fs[n]]

----------------------------------------------------------------------------
(* download_file_from_url and download_and_validate_image *)

\* what the network and the disk can do to one download:
\*   conn      requests.get raises (no connection, unsupported scheme)
\*   status    r.raise_for_status() raises
\*   open      open(filename, 'wb') raises
\*   stream    the file is created, then iter_content raises
\*   ok_image  the body is written and is an image
\*   ok_other  the body is written and is not an image
NetOutcomes == {"conn", "status", "open", "stream", "ok_image", "ok_other"}

DownloadErrors == {"ConnectionError", "HTTPError", "OpenError", "ChunkedEncodingError"}

ValidationErrors == {"InvalidURL", "InvalidIPv6", "InvalidExtension"}

download_file_from_url(u, filename, net, fs) ==
    CASE net = "conn"     -> [err |-> "ConnectionError", requested |-> TRUE, fs |-> fs]
      [] net = "status"   -> [err |-> "HTTPError", requested |-> TRUE, fs |-> fs]
      [] net = "open"     -> [err |-> "OpenError", requested |-> TRUE, fs |-> fs]
      [] net = "stream"   -> [err |-> "ChunkedEncodingError", requested |-> TRUE,
                              fs |-> WriteFile(fs, filename, "partial")]
      [] net = "ok_image" -> [err |-> "ok", requested |-> TRUE,
                              fs |-> WriteFile(fs, filename, "image")]
      [] net = "ok_other" -> [err |-> "ok", requested |-> TRUE,
                              fs |-> WriteFile(fs, filename, "other")]

download_and_validate_imageLate(u, filename, net, fs) ==
    LET r == download_file_from_url(u, filename, net, fs)
    IN  IF urlparse(u).raises
        THEN [err |-> "InvalidIPv6", requested |-> FALSE, fs |-> fs]
        ELSE IF ~is_valid_url(u)
        THEN [err |-> "InvalidURL", requested |-> FALSE, fs |-> fs]
        ELSE IF ~validate_file(filename)
        THEN [r EXCEPT !.err = "InvalidExtension"]
        ELSE r

download_and_validate_image(u, filename, net, fs) ==
    IF urlparse(u).raises
    THEN [err |-> "InvalidIPv6", requested |-> FALSE, fs |-> fs]
    ELSE IF ~is_valid_url(u)
    THEN [err |-> "InvalidURL", requested |-> FALSE, fs |-> fs]
    ELSE IF ~validate_file(filename)
    THEN [err |-> "InvalidExtension", requested |-> FALSE, fs |-> fs]
    ELSE download_file_from_url(u, filename, net, fs)

----------------------------------------------------------------------------
(* main: names, input lines, printed lines *)

Image1 == <<"i","m","a","g","e","1",".","j","p","g">>

Image2 == <<"i","m","a","g","e","2",".","j","p","g">>

QuitWord == <<"q","u","i","t">>

\* the lines a user types at a prompt, as input() returns them
Lines ==
    { <<"q","u","i","t">>,                              \* quit
      <<" ","Q","u","I","t","\t">>,                     \* quit, padded, mixed case
      <<"q","u","i","t","s">>,                          \* not the sentinel
      <<"n","o","t","a","u","r","l">>,                  \* no scheme, no host
      <<"h","t","t","p",":","/","a">>,                  \* scheme, no host
      <<"/","/","h","/","a">>,                          \* host, no scheme
      <<"h","t","t","p",":","/","/","[","h">>,          \* urlparse raises
      <<" ","H","T","T","P",":","/","/","h","/","a"," ">>,  \* valid, padded
      <<"f","t","p",":","/","/","h">> }                 \* valid for is_valid_url

\* what `line` holds when input() raised EOFError instead of returning
EOF == <<"EOF">>

SetupLine == "Setting up API..."

ErrorLine == "Error: "

SavedLine(k) == IF k = 1 THEN "First image saved as: " ELSE "Second image saved as: "

AnalyzingLine == "Analyzing image similarities..."

AnalysisHeader == "Image Analysis:"

AnalysisText == "similarities"

NoError == <<"none", <<>>>>

AwaitState(k) == IF k = 1 THEN "AwaitFirstURL" ELSE "AwaitSecondURL"

AwaitStates == {AwaitState(1), AwaitState(2)}

\* the state a loop's `break` leads to
AfterLoop(k) == IF k = 1 THEN "AwaitSecondURL" ELSE "Analyzing"

\* the literal filename the k-th loop downloads into
TargetNameSame(k) == Image1

TargetName(k) == IF k = 1 THEN Image1 ELSE Image2

\* url.lower() == 'quit'
IsQuitNoLower(u) == u = QuitWord

IsQuit(u) == LowerStr(u) = QuitWord

\* `except Exception` of the two input loops: which errors it catches
InputLoopCatchesValueError(e) == e \in ValidationErrors

InputLoopCatches(e) == TRUE

\* exit(): SystemExit is not an Exception, no handler of main catches it
ExitStatus == "exit0"

\* the top-level `except Exception`: prints, does not re-raise
TopLevelStatusReraise(e) == "exit1"

TopLevelStatus(e) == "exit0"

\* where control goes once the top-level handler has printed
TopLevelNextRetryOpen(s, e) == IF e[1] = "UnidentifiedImageError" THEN s ELSE "Returned"

TopLevelNext(s, e) == "Returned"

\* the top-level handler, entered from state s with exception e after the
\* step has printed `printed`
TopLevelHandler(s, e, printed) ==
    /\ pc' = TopLevelNext(s, e)
    /\ out' = Append(printed, ErrorLine)
    /\ error' = e
    /\ status' = IF TopLevelNext(s, e) = "Returned" THEN TopLevelStatus(e) ELSE status

----------------------------------------------------------------------------
(* main: the steps *)

Init ==
    /\ pc = "Setup"
    /\ files = NoFiles
    /\ line = <<>>
    /\ url = <<>>
    /\ fname = <<>>
    /\ result = "none"
    /\ out = <<>>
    /\ image_paths = <<>>
    /\ deleted = {}
    /\ analyzeCalled = FALSE
    /\ modelCalls = 0
    /\ everRequested = FALSE
    /\ error = NoError
    /\ status = "running"

\* print("Setting up API..."); model = setup_api()
SetupApi ==
    /\ pc = "Setup"
    /\ \E ok \in BOOLEAN :
          IF ok
          THEN /\ pc' = "AwaitFirstURL"
               /\ out' = <<SetupLine>>
               /\ UNCHANGED <<error, status>>
          ELSE TopLevelHandler("Setup", <<"SetupError", <<>>>>, <<SetupLine>>)
    /\ result' = "none"
    /\ UNCHANGED <<files, line, url, fname, image_paths, deleted,
                   analyzeCalled, modelCalls, everRequested>>

\* input() raises EOFError: outside the loop's try, so the top-level
\* handler gets it
InputEOF(k) ==
    /\ pc = AwaitState(k)
    /\ line' = EOF
    /\ result' = "none"
    /\ TopLevelHandler(AwaitState(k), <<"EOFError", <<>>>>, <<>>)
    /\ UNCHANGED <<files, url, fname, image_paths, deleted,
                   analyzeCalled, modelCalls, everRequested>>

\* one iteration of a loop that ends in exit()
Quit(k) ==
    /\ pc = AwaitState(k)
    /\ \E l \in Lines :
          /\ IsQuit(Strip(l))
          /\ line' = l
          /\ url' = Strip(l)
    /\ pc' = "Exit"
    /\ status' = ExitStatus
    /\ result' = "none"
    /\ out' = <<>>
    /\ UNCHANGED <<files, fname, image_paths, deleted, analyzeCalled,
                   modelCalls, everRequested, error>>

\* one iteration of a loop that calls download_and_validate_image
Attempt(k) ==
    /\ pc = AwaitState(k)
    /\ \E l \in Lines, net \in NetOutcomes :
          LET r == download_and_validate_image(Strip(l), TargetName(k), net, files)
          IN  /\ ~IsQuit(Strip(l))
              /\ line' = l
              /\ url' = Strip(l)
              /\ fname' = TargetName(k)
              /\ result' = r.err
              /\ files' = r.fs
              /\ everRequested' = (everRequested \/ r.requested)
              /\ IF r.err = "ok"
                 THEN /\ image_paths' = Append(image_paths, TargetName(k))
                      /\ out' = <<SavedLine(k)>>
                      /\ pc' = AfterLoop(k)
                      /\ UNCHANGED <<error, status>>
                 ELSE IF InputLoopCatches(r.err)
                 THEN /\ out' = <<ErrorLine>>
                      /\ pc' = AwaitState(k)
                      /\ UNCHANGED <<image_paths, error, status>>
                 ELSE /\ TopLevelHandler(AwaitState(k), <<r.err, <<>>>>, <<>>)
                      /\ UNCHANGED image_paths
    /\ UNCHANGED <<deleted, analyzeCalled, modelCalls>>

\* Image.open(path) raises unless the file exists and holds an image
ImageOpenRaises(fs, path) == path \notin DOMAIN fs \/ fs[path] # "image"

\* how model.generate_content / response.text can end:
\*   ok      the text is returned
\*   raise   generate_content raises (credential, quota, network)
\*   notext  the call returns and response.text raises
ApiOutcomes == {"ok", "raise", "notext"}

\* the number of model.generate_content calls one analysis makes
GenerateCallsRetry(api) == IF api = "raise" THEN 2 ELSE 1

GenerateCalls(api) == 1

\* print; similarities = analyze_image_similarities(...); print; print
Analyze ==
    /\ pc = "Analyzing"
    /\ analyzeCalled' = TRUE
    /\ result' = "none"
    /\ LET image1_path == image_paths[1]
           image2_path == image_paths[2]
       IN  IF ImageOpenRaises(files, image1_path)
           THEN /\ TopLevelHandler("Analyzing",
                        <<"UnidentifiedImageError", image1_path>>, <<AnalyzingLine>>)
                /\ UNCHANGED modelCalls
           ELSE IF ImageOpenRaises(files, image2_path)
           THEN /\ TopLevelHandler("Analyzing",
                        <<"UnidentifiedImageError", image2_path>>, <<AnalyzingLine>>)
                /\ UNCHANGED modelCalls
           ELSE \E api \in ApiOutcomes :
                  /\ modelCalls' = modelCalls + GenerateCalls(api)
                  /\ IF api = "ok"
                     THEN /\ pc' = "Done"
                          /\ out' = <<AnalyzingLine, AnalysisHeader, AnalysisText>>
                          /\ UNCHANGED <<error, status>>
                     ELSE TopLevelHandler("Analyzing",
                              <<"RemoteAPIError", <<>>>>, <<AnalyzingLine>>)
    /\ UNCHANGED <<files, line, url, fname, image_paths, deleted, everRequested>>

\* the order of the two os.remove calls
RemoveOrderReversed(paths) == <<paths[2], paths[1]>>

RemoveOrder(paths) == <<paths[1], paths[2]>>

\* os.remove(image1_path); os.remove(image2_path); main returns
Cleanup ==
    /\ pc = "Done"
    /\ result' = "none"
    /\ \E fail1, fail2 \in BOOLEAN :
         LET first  == RemoveOrder(image_paths)[1]
             second == RemoveOrder(image_paths)[2]
             fs1    == RemoveFile(files, first)
         IN  IF fail1 \/ first \notin DOMAIN files
             THEN /\ TopLevelHandler("Done", <<"RemoveError", first>>, <<>>)
                  /\ UNCHANGED <<files, deleted>>
             ELSE IF fail2 \/ second \notin DOMAIN fs1
             THEN /\ TopLevelHandler("Done", <<"RemoveError", second>>, <<>>)
                  /\ files' = fs1
                  /\ deleted' = deleted \cup {first}
             ELSE /\ files' = RemoveFile(fs1, second)
                  /\ deleted' = deleted \cup {first, second}
                  /\ pc' = "Returned"
                  /\ status' = "exit0"
                  /\ out' = <<>>
                  /\ UNCHANGED error
    /\ UNCHANGED <<line, url, fname, image_paths, analyzeCalled, modelCalls,
                   everRequested>>

Next ==
    \/ SetupApi
    \/ \E k \in {1, 2} : InputEOF(k)
    \/ \E k \in {1, 2} : Quit(k)
    \/ \E k \in {1, 2} : Attempt(k)
    \/ Analyze
    \/ Cleanup

Spec == Init /\ [][Next]_vars

\* every blocking call (input, download, model call, delete) returns or
\* raises: the single thread always takes its next step
LiveSpec == Spec /\ WF_vars(Next)

----------------------------------------------------------------------------
(* One call of download_and_validate_image on arbitrary arguments *)

NameSegs ==
    { <<".">>, <<"/">>, <<"x">>, <<"j","p","g">>, <<"J","p","G">>,
      <<"j","p","e","g">>, <<"P","N","G">>, <<"g","i","f">>, <<"b","m","p">> }

RECURSIVE NamesOf(_)
NamesOf(n) ==
    IF n = 0 THEN {<<>>}
    ELSE LET shorter == NamesOf(n - 1)
         IN  shorter \cup {s \o seg : s \in shorter, seg \in NameSegs}

Filenames == NamesOf(MaxNameSegs)

CallUrls ==
    { <<"h","t","t","p",":","/","/","h","/","a">>,
      <<"n","o","t","a","u","r","l">>,
      <<"h","t","t","p",":","/","a">>,
      <<"h","t","t","p",":","/","/","[","h">> }

InitCall ==
    /\ pc = "Call"
    /\ url \in CallUrls
    /\ fname \in Filenames
    /\ files \in {NoFiles, WriteFile(NoFiles, fname, "old")}
    /\ line = <<>>
    /\ result = "none"
    /\ out = <<>>
    /\ image_paths = <<>>
    /\ deleted = {}
    /\ analyzeCalled = FALSE
    /\ modelCalls = 0
    /\ everRequested = FALSE
    /\ error = NoError
    /\ status = "running"

Call ==
    /\ pc = "Call"
    /\ \E net \in NetOutcomes :
          LET r == download_and_validate_image(url, fname, net, files)
          IN  /\ result' = r.err
              /\ files' = r.fs
              /\ everRequested' = r.requested
    /\ pc' = "Called"
    /\ UNCHANGED <<line, url, fname, out, image_paths, deleted, analyzeCalled,
                   modelCalls, error, status>>

NextCall == Call

CallSpec == InitCall /\ [][NextCall]_vars

----------------------------------------------------------------------------
(* Properties *)

Terminated == pc \in {"Exit", "Returned"}

BothDownloaded == Len(image_paths) = 2

\* the driver's states in the order main goes through them
Rank(s) ==
    CASE s = "Setup"          -> 0
      [] s = "AwaitFirstURL"  -> 1
      [] s = "AwaitSecondURL" -> 2
      [] s = "Analyzing"      -> 3
      [] s = "Done"           -> 4
      [] s = "Exit"           -> 5
      [] s = "Returned"       -> 5

\* C1: the driver only advances AwaitFirstURL -> AwaitSecondURL -> Analyzing
\* -> Done (or leaves through Exit from an Await state): the second prompt
\* is issued only after a download into image1.jpg succeeded, the analysis
\* is called only after downloads into image1.jpg and image2.jpg succeeded,
\* and a state that has been left is never entered again.
C1_StateOrder ==
    /\ [](pc = "AwaitSecondURL" => Image1 \in Range(image_paths))
    /\ []((analyzeCalled \/ pc \in {"Analyzing", "Done"})
            => /\ Image1 \in Range(image_paths)
               /\ Image2 \in Range(image_paths))
    /\ [][ /\ Rank(pc') >= Rank(pc)
           /\ (pc' = "Exit" => pc \in AwaitStates)
           /\ (pc' = "AwaitSecondURL" => pc \in AwaitStates)
           /\ (pc' = "Analyzing" => pc = "AwaitSecondURL")
           /\ (pc' = "Done" => pc = "Analyzing") ]_vars

C1_Witness ==
    /\ pc = "Done"
    /\ image_paths = <<Image1, Image2>>
    /\ analyzeCalled

\* C2: in every run in which both downloads succeeded, image1.jpg and
\* image2.jpg no longer exist when the process has terminated.
C2_FilesDeletedAtExit ==
    (Terminated /\ BothDownloaded)
        => (Image1 \notin DOMAIN files /\ Image2 \notin DOMAIN files)

C4_RetryOnError ==
    [][ (pc \in AwaitStates /\ result' \notin {"none", "ok"})
        => /\ pc' = pc
           /\ out' = <<ErrorLine>>
           /\ status' = "running"
           /\ error' = NoError
           /\ (result' \in {"InvalidURL", "InvalidIPv6"}
                 => files' = files /\ everRequested' = everRequested) ]_vars

C4_Witness ==
    /\ pc = "AwaitSecondURL"
    /\ result = "HTTPError"
    /\ out = <<ErrorLine>>
    /\ status = "running"

\* C5: when is_valid_url(url) or validate_file(filename) is false, the call
\* raises without any HTTP request and without touching any file; a request
\* is issued only when both validators return true.
C5_FailFast ==
    /\ [][ ( /\ pc = "Call"
             /\ ~urlparse(url).raises
             /\ (~is_valid_url(url) \/ ~validate_file(fname)) )
            => /\ result' \in ValidationErrors
               /\ ~everRequested'
               /\ files' = files ]_vars
    /\ [](everRequested
            => /\ ~urlparse(url).raises
               /\ is_valid_url(url)
               /\ validate_file(fname))

C5_Witness ==
    /\ pc = "Called"
    /\ is_valid_url(url)
    /\ result = "InvalidExtension"
    /\ ~everRequested
    /\ fname \in DOMAIN files

\* C6: an error raised outside the two input-loop handlers is caught by the
\* top-level handler, which prints an 'Error: ' line and does not re-raise;
\* every terminated run has exit status zero.
C6_NormalExit ==
    /\ (Terminated <=> status # "running")
    /\ (Terminated => status = "exit0")
    /\ (error # NoError
          => /\ pc = "Returned"
             /\ out # <<>>
             /\ out[Len(out)] = ErrorLine
             /\ error[1] \notin (ValidationErrors \cup DownloadErrors))

C6_Witness ==
    /\ pc = "Returned"
    /\ error[1] = "RemoteAPIError"
    /\ status = "exit0"

\* C7 as stated: the model service is called at most once, exactly once in
\* every run in which both downloads succeeded, never in the other runs.
C7_OncePerSuccessfulRun ==
    /\ modelCalls <= 1
    /\ (Terminated /\ BothDownloaded => modelCalls = 1)
    /\ (Terminated /\ ~BothDownloaded => modelCalls = 0)

\* C7 amended: the model service is called at most once (a failed call is
\* not retried): exactly once in every run in which both downloads succeeded
\* and Image.open accepted both files, never in the other runs.
C7_OnceWhenImagesOpen ==
    /\ modelCalls <= 1
    /\ (pc \in {"Setup", "AwaitFirstURL", "AwaitSecondURL", "Analyzing", "Exit"}
          => modelCalls = 0)
    /\ (pc = "Done" => modelCalls = 1)
    /\ (Terminated /\ BothDownloaded /\ error[1] # "UnidentifiedImageError"
          => modelCalls = 1)
    /\ (Terminated /\ (~BothDownloaded \/ error[1] = "UnidentifiedImageError")
          => modelCalls = 0)

C7_Witness ==
    /\ pc = "Returned"
    /\ BothDownloaded
    /\ error[1] = "UnidentifiedImageError"
    /\ modelCalls = 0

\* the suffix of f from its last dot, empty when f has no dot
SuffixFromLastDot(f) ==
    IF "." \in Range(f)
    THEN LET d == CHOOSE i \in DOMAIN f :
                    f[i] = "." /\ \A j \in DOMAIN f : f[j] = "." => j <= i
         IN  SubSeq(f, d, Len(f))
    ELSE <<>>

\* C8 as stated: validate_file is true iff the suffix of the filename from
\* its last dot, lowercased, is .jpg, .jpeg, .png or .gif.
C8_LastDotSuffix ==
    validate_file(fname) <=> LowerStr(SuffixFromLastDot(fname)) \in allowed_extensions

\* f has an extension at d: a dot, no dot or separator after it, and before
\* it, in the same path component, a character that is not a dot
ExtensionAt(f, d) ==
    /\ f[d] = "."
    /\ \A j \in (d+1)..Len(f) : f[j] \notin {".", "/"}
    /\ \E j \in 1..(d-1) :
          /\ f[j] # "."
          /\ \A m \in j..d : f[m] # "/"

\* C8 amended: validate_file is true iff the filename's last path component
\* has an extension (a suffix from its last dot, with a character that is
\* not a dot before that dot in the component) which, lowercased, is .jpg,
\* .jpeg, .png or .gif; the letter case of the filename does not matter.
C8_SplitextSuffix ==
    /\ validate_file(fname)
         <=> \E d \in DOMAIN fname :
               /\ ExtensionAt(fname, d)
               /\ LowerStr(SubSeq(fname, d, Len(fname))) \in allowed_extensions
    /\ validate_file(fname) = validate_file(LowerStr(fname))

C8_Witness ==
    /\ pc = "Called"
    /\ result = "ok"
    /\ fname = <<"x", ".", "J","p","G">>

\* C9: if the driver leaves every Await state it is in (the user eventually
\* types quit or a URL that downloads) and every call returns or raises,
\* main terminates: staying in an Await state forever is the only way not to.
C9_Terminates ==
    ((pc \in AwaitStates) ~> (pc \notin AwaitStates)) => <>Terminated

C9_Witness ==
    /\ pc = "Returned"
    /\ error = NoError
    /\ deleted = {Image1, Image2}

\* C10: files are deleted only after the analysis returned and its result
\* was printed, image1.jpg before image2.jpg; when the analysis raises both
\* files stay on disk, when deleting image1.jpg raises image2.jpg stays.
C10_DeletionOrder ==
    /\ [][deleted' # deleted => (pc = "Done" /\ modelCalls = 1)]_vars
    /\ [][pc' = "Done" => (Len(out') = 3 /\ out'[3] = AnalysisText)]_vars
    /\ [](Image2 \in deleted => Image1 \in deleted)
    /\ []((Terminated /\ error[1] \in {"UnidentifiedImageError", "RemoteAPIError"})
            => /\ deleted = {}
               /\ Image1 \in DOMAIN files
               /\ Image2 \in DOMAIN files)
    /\ []((Terminated /\ error = <<"RemoveError", Image1>>)
            => /\ Image2 \notin deleted
               /\ Image2 \in DOMAIN files)

C10_Witness ==
    /\ pc = "Returned"
    /\ error = <<"RemoveError", Image1>>
    /\ Image1 \in DOMAIN files
    /\ Image2 \in DOMAIN files

====
